---- MODULE Spec2Model ----
(***************************************************************************)
(* A model of the job scraper: the Job record and its derived average      *)
(* salary (utils.py), the three source adapters (sources/*.py), the merge  *)
(* of their results (main.py scrape_jobs), the Firestore integration       *)
(* (firebase.py) and the scheduler loop (main.py schedule_pipeline).       *)
(*                                                                         *)
(* Python values are modelled as follows.  None is the string "None".      *)
(* Strings that the code inspects character by character (urls, company    *)
(* names) are tuples of one-character strings, so that "" is << >>.        *)
(* Salaries are whole numbers drawn from even amounts, so that the float   *)
(* mean (a + b) / 2.0 is a whole number too.                               *)
(***************************************************************************)
EXTENDS Integers, Sequences, FiniteSets, TLC

VARIABLES
    probe,        \* the Job whose average_salary is read
    probe_pc,     \* "built" before the read of average_salary, "read" after
    probe_avg,    \* the value average_salary returned (None before the read)
    up_pc,        \* upsert_jobs_batch: "idle", "loop", "returned", "raised"
    up_jobs,      \* upsert_jobs_batch: the jobs argument
    up_size,      \* upsert_jobs_batch: the batch_size argument
    up_i,         \* upsert_jobs_batch: number of jobs the for loop has taken
    up_count,     \* upsert_jobs_batch: count
    up_total,     \* upsert_jobs_batch: total
    up_batch,     \* the writes staged in the current WriteBatch
    up_commits,   \* the batches committed so far, in order
    up_store,     \* the Firestore collection: document id -> data
    up_ret,       \* the value returned
    ft_pc,        \* a single fetch_jobs call: "ready" before, "done" after
    ft_source,    \* the adapter called
    ft_args,      \* its filter arguments
    ft_env,       \* the environment variables it read
    ft_resps,     \* the answers to the requests it issued
    ft_out,       \* what the call did
    sc_pc,        \* a single scrape_jobs call: "ready" before, "done" after
    sc_args,      \* its arguments
    sc_env,       \* the environment variables during the call
    sc_resps,     \* the answers of the feeds: remoteok, remotive, adzuna
    sc_out,       \* what the call did
    sd_pc,        \* schedule_pipeline: where the main thread is
    sd_kwargs,    \* the arguments of schedule_pipeline
    sd_wait,      \* checks of run_pending until the job is due
    sd_env,       \* the environment variables
    sd_adc,       \* whether application default credentials can be found
    sd_apps,      \* firebase_admin and its _apps: the app registered, if any
    sd_jobs,      \* run_pipeline: the jobs scrape_jobs returned
    sd_csv,       \* the file at output_path: None, or <<its rows>>
    sd_fb,        \* the last init_firebase call
    sd_last,      \* how the last run_pipeline call ended
    sd_signal     \* whether SIGINT or SIGTERM was delivered

salaryVars == <<probe, probe_pc, probe_avg>>
upsertVars == <<up_pc, up_jobs, up_size, up_i, up_count, up_total, up_batch,
                up_commits, up_store, up_ret>>
fetchVars == <<ft_pc, ft_source, ft_args, ft_env, ft_resps, ft_out>>
scrapeVars == <<sc_pc, sc_args, sc_env, sc_resps, sc_out>>
schedVars == <<sd_pc, sd_kwargs, sd_wait, sd_env, sd_adc, sd_apps, sd_jobs, sd_csv,
               sd_fb, sd_last, sd_signal>>
vars == <<salaryVars, upsertVars, fetchVars, scrapeVars, schedVars>>

----------------------------------------------------------------------------
(* Python values *)

\* An Optional[float] is << >> for None and <<n>> for the number n.
None == << >>
Num(n) == <<n>>
Val(x) == x[1]

\* bool(x) of an Optional[float]: None and 0 are false.
TruthyNum(x) == x # None /\ Val(x) # 0

\* The expression `a or b` on two Optional[float].
OrNum(a, b) == IF TruthyNum(a) THEN a ELSE b

Min(a, b) == IF a <= b THEN a ELSE b

----------------------------------------------------------------------------
(* utils.py: Job *)

Job(title, company, location, publication_date, salary_min, salary_max, currency, url, source) ==
    [title |-> title, company |-> company, location |-> location,
     publication_date |-> publication_date, salary_min |-> salary_min,
     salary_max |-> salary_max, currency |-> currency, url |-> url,
     source |-> source]

\* The float mean (a + b) / 2.0 of two numbers (exact on even amounts).
Mean(a, b) == (a + b) \div 2

\* A mutant of average_salary: the mean is replaced by the upper bound.
average_salary_upper(job) ==
    IF job.salary_min # None /\ job.salary_max # None
    THEN job.salary_max
    ELSE OrNum(job.salary_max, job.salary_min)

\* Job.average_salary (a property, computed on every read).
average_salary(job) ==
    IF job.salary_min # None /\ job.salary_max # None
    THEN Num(Mean(Val(job.salary_min), Val(job.salary_max)))
    ELSE OrNum(job.salary_max, job.salary_min)

----------------------------------------------------------------------------
(* SpecSalary: average_salary read on every Job the bounds allow *)

MaxSalaryStep == 7
Salaries == {2 * i : i \in 0..MaxSalaryStep}
OptSalaries == {None} \cup {Num(s) : s \in Salaries}

\* A timezone-aware datetime at day t.
Aware(t) == [aware |-> TRUE, t |-> t]

ProbeJob(lo, hi) ==
    Job(<<>>, <<>>, <<>>, Aware(0), lo, hi, "None", <<>>, "probe")

InitSalary ==
    /\ \E lo \in OptSalaries, hi \in OptSalaries : probe = ProbeJob(lo, hi)
    /\ probe_pc = "built"
    /\ probe_avg = None

ReadAverageSalary ==
    /\ probe_pc = "built"
    /\ probe_avg' = average_salary(probe)
    /\ probe_pc' = "read"
    /\ UNCHANGED probe

----------------------------------------------------------------------------
(* firebase.py: upsert_jobs_batch *)

\* str.replace(old, new) on a string of single characters.
Replace(s, old, new) == [i \in 1..Len(s) |-> IF s[i] = old THEN new ELSE s[i]]

\* doc_id = job.url.replace("/", "_").replace(":", "_")
doc_id(url) == Replace(Replace(url, "/", "_"), ":", "_")

\* datetime.isoformat(): the text ends with the offset of an aware datetime
\* and has none for a naive one.
isoformat(dt) == [text |-> dt.t, offset |-> IF dt.aware THEN "+00:00" ELSE ""]

\* The write batch.set(doc_ref, data) stages for one job.
DocWrite(job) ==
    [id |-> doc_id(job.url),
     data |-> [title |-> job.title, company |-> job.company,
               location |-> job.location,
               publication_date |-> isoformat(job.publication_date),
               salary_min |-> job.salary_min, salary_max |-> job.salary_max,
               currency |-> job.currency,
               average_salary |-> average_salary(job),
               url |-> job.url, source |-> job.source, logo |-> <<>>]]

\* A mutant of BatchFull: the batch is committed one write late.
BatchFull_late(count, batch_size) == count > batch_size

\* if count >= batch_size
BatchFull(count, batch_size) == count >= batch_size

\* A mutant of FinalCommitDue: the partial batch is committed only when it
\* holds more than one write.
FinalCommitDue_many(count) == count > 1

\* if count > 0 (after the loop)
FinalCommitDue(count) == count > 0

\* batch.commit(): every staged set() overwrites the document of its id.
RECURSIVE Committed(_, _)
Committed(store, writes) ==
    IF writes = <<>> THEN store
    ELSE LET w == Head(writes)
             s == [k \in DOMAIN store \cup {w.id} |->
                      IF k = w.id THEN w.data ELSE store[k]]
         IN Committed(s, Tail(writes))

\* for job in jobs: a job with an empty url is passed over.
UpsertSkipJob ==
    /\ up_pc = "loop"
    /\ up_i < Len(up_jobs)
    /\ up_jobs[up_i + 1].url = <<>>
    /\ up_i' = up_i + 1
    /\ UNCHANGED <<up_pc, up_jobs, up_size, up_count, up_total, up_batch,
                   up_commits, up_store, up_ret>>

\* for job in jobs: the write is staged and the batch is not yet full.
UpsertStageJob ==
    /\ up_pc = "loop"
    /\ up_i < Len(up_jobs)
    /\ up_jobs[up_i + 1].url # <<>>
    /\ ~BatchFull(up_count + 1, up_size)
    /\ up_i' = up_i + 1
    /\ up_batch' = Append(up_batch, DocWrite(up_jobs[up_i + 1]))
    /\ up_count' = up_count + 1
    /\ up_total' = up_total + 1
    /\ UNCHANGED <<up_pc, up_jobs, up_size, up_commits, up_store, up_ret>>

\* for job in jobs: the write is staged, fills the batch, and the batch is
\* committed and replaced by a new one.
UpsertStageAndCommit ==
    /\ up_pc = "loop"
    /\ up_i < Len(up_jobs)
    /\ up_jobs[up_i + 1].url # <<>>
    /\ BatchFull(up_count + 1, up_size)
    /\ LET full == Append(up_batch, DocWrite(up_jobs[up_i + 1]))
       IN /\ up_commits' = Append(up_commits, full)
          /\ up_store' = Committed(up_store, full)
    /\ up_i' = up_i + 1
    /\ up_batch' = <<>>
    /\ up_count' = 0
    /\ up_total' = up_total + 1
    /\ UNCHANGED <<up_pc, up_jobs, up_size, up_ret>>

\* batch.commit() fails (the service is unreachable, a write is refused):
\* the exception leaves upsert_jobs_batch, no write of the batch is applied.
UpsertCommitRaises ==
    /\ up_pc = "loop"
    /\ \/ /\ up_i < Len(up_jobs)
          /\ up_jobs[up_i + 1].url # <<>>
          /\ BatchFull(up_count + 1, up_size)
          /\ up_batch' = Append(up_batch, DocWrite(up_jobs[up_i + 1]))
          /\ up_count' = up_count + 1
          /\ up_total' = up_total + 1
          /\ up_i' = up_i + 1
       \/ /\ up_i = Len(up_jobs)
          /\ FinalCommitDue(up_count)
          /\ UNCHANGED <<up_batch, up_count, up_total, up_i>>
    /\ up_pc' = "raised"
    /\ UNCHANGED <<up_jobs, up_size, up_commits, up_store, up_ret>>

\* After the loop: the partial batch is committed and total is returned.
UpsertReturn ==
    /\ up_pc = "loop"
    /\ up_i = Len(up_jobs)
    /\ IF FinalCommitDue(up_count)
       THEN /\ up_commits' = Append(up_commits, up_batch)
            /\ up_store' = Committed(up_store, up_batch)
            /\ up_batch' = <<>>
       ELSE UNCHANGED <<up_commits, up_store, up_batch>>
    /\ up_ret' = up_total
    /\ up_pc' = "returned"
    /\ UNCHANGED <<up_jobs, up_size, up_i, up_count, up_total>>

----------------------------------------------------------------------------
(* SpecUpsert: upsert_jobs_batch on every job list the bounds allow *)

MaxUpsertJobs == 4
MaxBatchSize == 3

UpsertUrls == {<<>>, <<"a", "/", "b">>, <<"a", ":", "b">>, <<"c">>}

UpsertJob(url) ==
    Job(<<"t">>, <<"acme">>, <<"Remote">>, Aware(0), None, Num(2), "USD",
        url, "Remote OK")

UpsertJobLists ==
    UNION {[1..n -> {UpsertJob(u) : u \in UpsertUrls}] : n \in 0..MaxUpsertJobs}

EmptyStore == [k \in {} |-> k]

InitUpsert ==
    /\ up_pc = "loop"
    /\ up_jobs \in UpsertJobLists
    /\ up_size \in 1..MaxBatchSize
    /\ up_i = 0
    /\ up_count = 0
    /\ up_total = 0
    /\ up_batch = <<>>
    /\ up_commits = <<>>
    /\ up_store = EmptyStore
    /\ up_ret = 0

----------------------------------------------------------------------------
(* utils.py: is_recent, is_top_company *)

\* A datetime without tzinfo at day t.
Naive(t) == [aware |-> FALSE, t |-> t]

\* now = datetime.now(timezone.utc); days are counted from it.
UtcNow == 0

\* is_recent(job, days): comparing a naive publication_date with the aware
\* cutoff raises TypeError.
is_recent(job, days) ==
    IF ~job.publication_date.aware THEN "TypeError"
    ELSE IF job.publication_date.t >= UtcNow - days THEN "True"
    ELSE "False"

\* str.lower() on the letters the model uses.
LowerCh(c) ==
    CASE c = "A" -> "a"
      [] c = "B" -> "b"
      [] c = "N" -> "n"
      [] OTHER -> c
Lower(s) == [i \in 1..Len(s) |-> LowerCh(s[i])]

\* str.strip()
RECURSIVE Strip(_)
Strip(s) ==
    IF s # <<>> /\ Head(s) = " " THEN Strip(Tail(s))
    ELSE IF s # <<>> /\ s[Len(s)] = " " THEN Strip(SubSeq(s, 1, Len(s) - 1))
    ELSE s

\* sub in s
Contains(s, sub) ==
    \E i \in 0..(Len(s) - Len(sub)) : SubSeq(s, i + 1, i + Len(sub)) = sub

\* is_top_company(job, top_companies)
is_top_company(job, top_companies) ==
    IF top_companies = <<>> THEN FALSE
    ELSE LET company_lower == Lower(job.company)
         IN \E k \in 1..Len(top_companies) :
                Contains(company_lower, Lower(Strip(top_companies[k])))

----------------------------------------------------------------------------
(* The raw postings of the feeds *)

\* A date string: kind is "missing" (no date key, or an empty string),
\* "malformed" (not ISO 8601), "naive" (ISO 8601 without an offset), "aware"
\* (ISO 8601 with an offset) or "zulu" (ISO 8601 ending in Z); t is its day.
DateStr(kind, t) == [kind |-> kind, t |-> t]

\* datetime.fromisoformat(date_str).  A trailing Z is refused (Python before
\* 3.11), which is what remote_ok.py normalises away.
fromisoformat(d) ==
    CASE d.kind = "aware" -> [ok |-> TRUE, dt |-> Aware(d.t)]
      [] d.kind = "naive" -> [ok |-> TRUE, dt |-> Naive(d.t)]
      [] OTHER -> [ok |-> FALSE, dt |-> Naive(0)]

\* A salary text is the sequence of its numeric tokens: the number n, whether
\* a $ precedes it, whether a k follows it.
Token(dollar, n, k) == [dollar |-> dollar, n |-> n, k |-> k]

\* A raw posting.  salary_min and salary_max are Optional numbers, salary is
\* a salary text, company is None (no such key) or <<name>>, url is the url
\* ("" when the key is missing).
Item(date, salary_min, salary_max, salary, company, url) ==
    [date |-> date, salary_min |-> salary_min, salary_max |-> salary_max,
     salary |-> salary, company |-> company, url |-> url]

\* item.get(key, default)
Get(field, default) == IF field = None THEN default ELSE Val(field)

NA == <<"N", "/", "A">>

\* The outcome of one iteration of an adapter's for loop.
SkipItem == [kind |-> "skip"]
RaiseItem == [kind |-> "raise"]
KeepItem(job) == [kind |-> "job", job |-> job]

\* The average the adapters compute from the two bounds before filtering.
avg_salary(salary_min, salary_max) ==
    IF salary_min # None /\ salary_max # None
    THEN Num(Mean(Val(salary_min), Val(salary_max)))
    ELSE IF salary_max # None THEN salary_max
    ELSE IF salary_min # None THEN salary_min
    ELSE None

\* key(a) > key(b) for keys that are pairs: Python compares tuples by their
\* first components, then by their second.
KeyGt(a, b) == a[1] > b[1] \/ (a[1] = b[1] /\ a[2] > b[2])

\* list.sort(key=..., reverse=True): a stable sort, descending; elements of
\* equal key keep their order.  key[i] is the key of seq[i].
StableSortDesc(seq, key) ==
    LET n == Len(seq)
        pos(i) == Cardinality({j \in 1..n : KeyGt(key[j], key[i])})
                  + Cardinality({j \in 1..(i - 1) : key[j] = key[i]})
                  + 1
    IN [p \in 1..n |-> seq[CHOOSE i \in 1..n : pos(i) = p]]

\* A mutant of Truncate: the slice keeps one element more.
Truncate_one_more(seq, limit) ==
    IF limit >= 0 THEN SubSeq(seq, 1, Min(limit + 1, Len(seq)))
    ELSE SubSeq(seq, 1, Len(seq) + limit + 1)

\* seq[:limit]
Truncate(seq, limit) ==
    IF limit >= 0 THEN SubSeq(seq, 1, Min(limit, Len(seq)))
    ELSE SubSeq(seq, 1, Len(seq) + limit)

\* j.average_salary or 0.0
SalaryKey(job) ==
    LET a == average_salary(job) IN IF TruthyNum(a) THEN Val(a) ELSE 0

\* jobs.sort(key=lambda j: j.average_salary or 0.0, reverse=True)
SortBySalary(jobs) ==
    StableSortDesc(jobs, [i \in 1..Len(jobs) |-> <<SalaryKey(jobs[i]), 0>>])

\* An HTTP exchange: status is "ok" (a 2xx answer whose body decodes), or the
\* failure "network", "timeout", "http" (raise_for_status) or "decode"
\* (resp.json()); body is the list of raw postings of an "ok" answer.
Response(status, body) == [status |-> status, body |-> body]
Failures == {"network", "timeout", "http", "decode"}

\* What a fetch_jobs call did: whether an exception left it, the list it
\* returned, and the requests it issued.
Raised(requests) == [raised |-> TRUE, jobs |-> <<>>, requests |-> requests]
Returned(jobs, requests) == [raised |-> FALSE, jobs |-> jobs, requests |-> requests]

\* The filter arguments of a fetch_jobs call.
Args(days, min_salary, top_companies, limit) ==
    [days |-> days, min_salary |-> min_salary, top_companies |-> top_companies,
     limit |-> limit]

----------------------------------------------------------------------------
(* sources/remote_ok.py *)

\* _parse_salary: the numbers that follow a $; a k suffix is not read.
RemoteOkParseSalary(salary_text) ==
    LET nums == SelectSeq(salary_text, LAMBDA tok : tok.dollar)
    IN IF nums = <<>> THEN <<None, None>>
       ELSE IF Len(nums) >= 2 THEN <<Num(nums[1].n), Num(nums[2].n)>>
       ELSE <<None, Num(nums[1].n)>>

\* A mutant of RemoteOkSalaryFilter: a posting without salary is kept when no
\* threshold is set, as the two other adapters do.
RemoteOkSalaryFilter_lenient(avg, min_salary) ==
    \/ avg = None /\ min_salary > 0
    \/ avg # None /\ Val(avg) < min_salary

\* if avg_salary is None or avg_salary < min_salary: continue
RemoteOkSalaryFilter(avg, min_salary) ==
    avg = None \/ Val(avg) < min_salary

\* One iteration of `for item in items`.
RemoteOkItem(item, args) ==
    LET date_norm == IF item.date.kind = "zulu"
                     THEN DateStr("aware", item.date.t) ELSE item.date
        parsed == fromisoformat(date_norm)
        dummy_job == Job(<<>>, <<>>, <<>>, parsed.dt, None, None, "None", <<>>,
                         "Remote OK")
        recent == is_recent(dummy_job, args.days)
        bounds == IF item.salary_min = None /\ item.salary_max = None
                  THEN RemoteOkParseSalary(item.salary)
                  ELSE <<item.salary_min, item.salary_max>>
        avg == avg_salary(bounds[1], bounds[2])
        company == Get(item.company, NA)
    IN IF ~parsed.ok THEN SkipItem
       ELSE IF recent = "TypeError" THEN RaiseItem
       ELSE IF recent = "False" THEN SkipItem
       ELSE IF RemoteOkSalaryFilter(avg, args.min_salary) THEN SkipItem
       ELSE IF args.top_companies # <<>>
               /\ ~is_top_company([dummy_job EXCEPT !.company = company],
                                  args.top_companies)
       THEN SkipItem
       ELSE KeepItem(Job(<<>>, company, <<"R">>, parsed.dt, bounds[1],
                         bounds[2], "USD", item.url, "Remote OK"))

----------------------------------------------------------------------------
(* sources/remotive.py *)

\* _parse_salary: every number of the text; a number is multiplied by 1000
\* when the text holds that number followed by k.  (re.search looks for the
\* digits followed by k anywhere in the text; the amounts used here are not
\* suffixes of one another, so this is a token of the same number with a k.)
RemotiveParseSalary(salary_text) ==
    LET value(tok) == IF \E i \in 1..Len(salary_text) :
                             salary_text[i].k /\ salary_text[i].n = tok.n
                      THEN tok.n * 1000 ELSE tok.n
    IN IF salary_text = <<>> THEN <<None, None>>
       ELSE IF Len(salary_text) >= 2
       THEN <<Num(value(salary_text[1])), Num(value(salary_text[2]))>>
       ELSE <<None, Num(value(salary_text[1]))>>

\* A mutant of UnknownSalaryFilter: a posting without salary is dropped
\* whatever the threshold.
UnknownSalaryFilter_strict(avg, min_salary) ==
    \/ avg = None
    \/ avg # None /\ Val(avg) < min_salary

\* if avg_salary is None and min_salary > 0: continue
\* if avg_salary is not None and avg_salary < min_salary: continue
UnknownSalaryFilter(avg, min_salary) ==
    \/ avg = None /\ min_salary > 0
    \/ avg # None /\ Val(avg) < min_salary

\* One iteration of `for item in items`.
RemotiveItem(item, args) ==
    LET parsed == fromisoformat(item.date)
        dummy_job == Job(<<>>, <<>>, <<>>, parsed.dt, None, None, "None", <<>>,
                         "Remotive")
        recent == is_recent(dummy_job, args.days)
        company == Get(item.company, NA)
        bounds == RemotiveParseSalary(item.salary)
        avg == avg_salary(bounds[1], bounds[2])
    IN IF ~parsed.ok THEN SkipItem
       ELSE IF recent = "TypeError" THEN RaiseItem
       ELSE IF recent = "False" THEN SkipItem
       ELSE IF args.top_companies # <<>>
               /\ ~is_top_company([dummy_job EXCEPT !.company = company],
                                  args.top_companies)
       THEN SkipItem
       ELSE IF UnknownSalaryFilter(avg, args.min_salary) THEN SkipItem
       ELSE KeepItem(Job(<<>>, company, <<"R">>, parsed.dt, bounds[1],
                         bounds[2], "None", item.url, "Remotive"))

----------------------------------------------------------------------------
(* sources/adzuna.py *)

\* One iteration of `for item in items`.
AdzunaItem(item, args) ==
    LET parsed == fromisoformat(item.date)
        dummy_job == Job(<<>>, <<>>, <<>>, parsed.dt, None, None, "None", <<>>,
                         "Adzuna")
        recent == is_recent(dummy_job, args.days)
        company == Get(item.company, NA)
        avg == avg_salary(item.salary_min, item.salary_max)
    IN IF ~parsed.ok THEN SkipItem
       ELSE IF recent = "TypeError" THEN RaiseItem
       ELSE IF recent = "False" THEN SkipItem
       ELSE IF args.top_companies # <<>>
               /\ ~is_top_company([dummy_job EXCEPT !.company = company],
                                  args.top_companies)
       THEN SkipItem
       ELSE IF UnknownSalaryFilter(avg, args.min_salary) THEN SkipItem
       ELSE KeepItem(Job(<<>>, company, <<>>, parsed.dt, item.salary_min,
                         item.salary_max, "None", item.url, "Adzuna"))

----------------------------------------------------------------------------
(* The for loops of the three adapters *)

ItemOutcome(source, item, args) ==
    CASE source = "Remote OK" -> RemoteOkItem(item, args)
      [] source = "Remotive" -> RemotiveItem(item, args)
      [] source = "Adzuna" -> AdzunaItem(item, args)

\* for item in items: the jobs appended to `jobs`, or "raise" when an
\* iteration raises.
RECURSIVE ItemLoop(_, _, _, _)
ItemLoop(source, items, jobs, args) ==
    IF items = <<>> THEN [raised |-> FALSE, jobs |-> jobs]
    ELSE LET r == ItemOutcome(source, Head(items), args)
         IN IF r.kind = "raise" THEN [raised |-> TRUE, jobs |-> <<>>]
            ELSE ItemLoop(source, Tail(items),
                          IF r.kind = "job" THEN Append(jobs, r.job) ELSE jobs,
                          args)

\* remote_ok.fetch_jobs: one request; data[1:] drops the legal notice.
RemoteOkFetch(resp, args) ==
    LET request == [url |-> "remoteok"]
    IN IF resp.status # "ok" THEN Returned(<<>>, <<request>>)
       ELSE LET items == IF resp.body = <<>> THEN <<>> ELSE Tail(resp.body)
                loop == ItemLoop("Remote OK", items, <<>>, args)
            IN IF loop.raised THEN Raised(<<request>>)
               ELSE Returned(Truncate(SortBySalary(loop.jobs), args.limit),
                             <<request>>)

\* remotive.fetch_jobs: one request; the postings are data["jobs"].
RemotiveFetch(resp, args) ==
    LET request == [url |-> "remotive"]
    IN IF resp.status # "ok" THEN Returned(<<>>, <<request>>)
       ELSE LET loop == ItemLoop("Remotive", resp.body, <<>>, args)
            IN IF loop.raised THEN Raised(<<request>>)
               ELSE Returned(Truncate(SortBySalary(loop.jobs), args.limit),
                             <<request>>)

\* The environment value of an unset variable (os.environ.get gives None).
Unset == "<unset>"

\* not value, for an environment value
EnvFalsy(value) == value = Unset \/ value = ""

\* _get_credentials()
get_credentials(env) ==
    IF EnvFalsy(env.ADZUNA_APP_ID) \/ EnvFalsy(env.ADZUNA_APP_KEY)
    THEN <<Unset, Unset>>
    ELSE <<env.ADZUNA_APP_ID, env.ADZUNA_APP_KEY>>

\* countries = ["us", "gb", "in"]
AdzunaCountries == <<"us", "gb", "in">>

\* Adzuna max is 50 per page
AdzunaPageCap == 50

\* The request of one country.
AdzunaRequest(country, creds, args) ==
    [url |-> "adzuna", country |-> country, page |-> 1, app_id |-> creds[1],
     app_key |-> creds[2],
     results_per_page |-> Min(args.limit, AdzunaPageCap),
     salary_min |-> IF args.min_salary > 0 THEN Num(args.min_salary) ELSE None]

\* for country in countries: resps[k] answers the request of country k.
RECURSIVE AdzunaCountryLoop(_, _, _, _, _, _)
AdzunaCountryLoop(k, resps, results, requests, creds, args) ==
    IF k > Len(AdzunaCountries) THEN Returned(results, requests)
    ELSE LET sent == Append(requests, AdzunaRequest(AdzunaCountries[k], creds, args))
         IN IF resps[k].status # "ok"
            THEN AdzunaCountryLoop(k + 1, resps, results, sent, creds, args)
            ELSE LET loop == ItemLoop("Adzuna", resps[k].body, results, args)
                 IN IF loop.raised THEN Raised(sent)
                    ELSE AdzunaCountryLoop(k + 1, resps, loop.jobs, sent, creds, args)

\* A mutant of CredentialsMissing: the adapter stops only when both
\* credentials are missing.
CredentialsMissing_both(env) ==
    EnvFalsy(env.ADZUNA_APP_ID) /\ EnvFalsy(env.ADZUNA_APP_KEY)

\* app_id, app_key = _get_credentials(); if not app_id or not app_key
CredentialsMissing(env) ==
    LET creds == get_credentials(env)
    IN EnvFalsy(creds[1]) \/ EnvFalsy(creds[2])

\* adzuna.fetch_jobs (countries=None)
AdzunaFetch(env, resps, args) ==
    LET creds == <<env.ADZUNA_APP_ID, env.ADZUNA_APP_KEY>>
    IN IF CredentialsMissing(env) THEN Returned(<<>>, <<>>)
       ELSE LET all == AdzunaCountryLoop(1, resps, <<>>, <<>>, creds, args)
            IN IF all.raised THEN all
               ELSE Returned(Truncate(SortBySalary(all.jobs), args.limit),
                             all.requests)

----------------------------------------------------------------------------
(* main.py: load_top_companies, scrape_jobs *)

\* An Optional list or string is None or <<value>>, as a number is.
Some(x) == <<x>>

\* str.split(","): the pieces of a string between its commas.
RECURSIVE SplitCommas(_, _)
SplitCommas(s, piece) ==
    IF s = <<>> THEN <<piece>>
    ELSE IF Head(s) = "," THEN <<piece>> \o SplitCommas(Tail(s), <<>>)
    ELSE SplitCommas(Tail(s), Append(piece, Head(s)))

\* The built-in list load_top_companies falls back to.
DEFAULT_TOP_COMPANIES == <<<<"a", "b">>>>

\* load_top_companies(): TOP_COMPANIES is None (unset) or <<string>>.
load_top_companies(env) ==
    IF env.TOP_COMPANIES = None \/ Val(env.TOP_COMPANIES) = <<>>
    THEN DEFAULT_TOP_COMPANIES
    ELSE LET pieces == SplitCommas(Val(env.TOP_COMPANIES), <<>>)
             stripped == [k \in 1..Len(pieces) |-> Strip(pieces[k])]
         IN SelectSeq(stripped, LAMBDA c : c # <<>>)

\* The arguments of scrape_jobs: top_companies is None or <<list>>, sources
\* is None (<< >>, as the empty list: both select every source) or a list.
ScrapeArgs(days, min_salary, limit, top_companies, sources) ==
    [days |-> days, min_salary |-> min_salary, limit |-> limit,
     top_companies |-> top_companies, sources |-> sources]

InList(x, list) == \E k \in 1..Len(list) : list[k] = x

\* A mutant of Deduplicate: of several jobs of one url the last is kept.
RECURSIVE Deduplicate_last(_, _, _)
Deduplicate_last(jobs, seen, unique_jobs) ==
    IF jobs = <<>> THEN unique_jobs
    ELSE LET job == Head(jobs)
         IN IF job.url = <<>> THEN Deduplicate_last(Tail(jobs), seen, unique_jobs)
            ELSE Deduplicate_last(Tail(jobs), seen \cup {job.url},
                    Append(SelectSeq(unique_jobs, LAMBDA j : j.url # job.url), job))

\* for job in jobs: if not job.url or job.url in seen: continue
RECURSIVE Deduplicate(_, _, _)
Deduplicate(jobs, seen, unique_jobs) ==
    IF jobs = <<>> THEN unique_jobs
    ELSE LET job == Head(jobs)
         IN IF job.url = <<>> \/ job.url \in seen
            THEN Deduplicate(Tail(jobs), seen, unique_jobs)
            ELSE Deduplicate(Tail(jobs), seen \cup {job.url},
                             Append(unique_jobs, job))

\* A mutant of RankKey: ties of salary are not broken by date.
RankKey_salary_only(j) == <<SalaryKey(j), 0>>

\* key=lambda j: (j.average_salary or 0.0, j.publication_date)
RankKey(j) == <<SalaryKey(j), j.publication_date.t>>

\* unique_jobs.sort(key=..., reverse=True)
SortByRank(jobs) == StableSortDesc(jobs, [i \in 1..Len(jobs) |-> RankKey(jobs[i])])

\* What a scrape_jobs call did: whether an exception left it, the list it
\* returned, and the concatenation `jobs` of the adapters' lists.
ScrapeRaised == [raised |-> TRUE, jobs |-> <<>>, fetched |-> <<>>]
ScrapeReturned(jobs, fetched) == [raised |-> FALSE, jobs |-> jobs, fetched |-> fetched]

\* scrape_jobs(days, min_salary, limit, top_companies, sources); resps holds
\* the answers to the requests of the three adapters.
scrape_jobs(args, env, resps) ==
    LET top_companies == IF args.top_companies = None THEN load_top_companies(env)
                         ELSE Val(args.top_companies)
        sources == IF args.sources = <<>>
                   THEN <<"remoteok", "remotive", "adzuna">> ELSE args.sources
        fargs == Args(args.days, args.min_salary, top_companies, args.limit)
        none == Returned(<<>>, <<>>)
        r1 == IF InList("remoteok", sources)
              THEN RemoteOkFetch(resps.remoteok, fargs) ELSE none
        r2 == IF InList("remotive", sources)
              THEN RemotiveFetch(resps.remotive, fargs) ELSE none
        r3 == IF InList("adzuna", sources)
              THEN AdzunaFetch(env, resps.adzuna, fargs) ELSE none
    IN IF r1.raised \/ r2.raised \/ r3.raised THEN ScrapeRaised
       ELSE LET jobs == r1.jobs \o r2.jobs \o r3.jobs
                unique_jobs == Deduplicate(jobs, {}, <<>>)
            IN ScrapeReturned(Truncate(SortByRank(unique_jobs), args.limit), jobs)

----------------------------------------------------------------------------
(* SpecFetch: one fetch_jobs call of each adapter on every response the    *)
(* bounds allow                                                            *)

\* The largest number of postings in the answers to one fetch_jobs call.
MaxItems == 2
\* The largest small limit; one limit above the Adzuna page cap is added.
MaxLimit == 1

Limits == 0..MaxLimit \cup {AdzunaPageCap + MaxLimit}
TopCompanyLists == {<<>>, <<<<" ", "a", "B">>>>}
FetchArgs ==
    {Args(1, m, tc, l) : m \in {0, 4}, tc \in TopCompanyLists, l \in Limits}

\* A posting that passes every filter, and the postings that differ from it
\* in one field: the date, the salary, the company or the url.
BaseItem ==
    Item(DateStr("aware", 0), None, Num(4), <<>>, <<<<"A", "b", "c">>>>,
         <<"u", "1">>)
StarItems(dates, salaries, companies, urls) ==
    {BaseItem}
    \cup {[BaseItem EXCEPT !.date = d] : d \in dates}
    \cup {[BaseItem EXCEPT !.salary_min = x[1], !.salary_max = x[2],
                           !.salary = x[3]] : x \in salaries}
    \cup {[BaseItem EXCEPT !.company = c] : c \in companies}
    \cup {[BaseItem EXCEPT !.url = u] : u \in urls}

BadDates ==
    {DateStr("missing", 0), DateStr("malformed", 0), DateStr("naive", 0)}
NoSalary == <<None, None, <<>>>>

\* The postings of the two single-request feeds.
FetchItems ==
    StarItems(BadDates \cup {DateStr("zulu", 0), DateStr("aware", 0 - 1),
                             DateStr("aware", 0 - 2)},
              {NoSalary, <<None, Num(0), <<>>>>, <<Num(2), None, <<>>>>,
               <<Num(2), Num(6), <<>>>>,
               <<None, None, <<Token(TRUE, 6, FALSE)>>>>,
               <<None, None, <<Token(FALSE, 2, TRUE), Token(TRUE, 6, FALSE)>>>>},
              {None, <<<<"X">>>>},
              {<<>>, <<"u", "2">>})

\* The postings of the Adzuna answers (Adzuna reads no salary text).
AdzunaItems ==
    StarItems(BadDates \cup {DateStr("aware", 0 - 2)},
              {NoSalary, <<Num(2), Num(6), <<>>>>},
              {<<<<"X">>>>},
              {<<>>, <<"u", "2">>})

\* The legal notice that opens the Remote OK array.
LegalNotice ==
    Item(DateStr("aware", 0), None, Num(4), <<>>, <<<<"A", "b", "c">>>>,
         <<"l", "e", "g", "a", "l">>)

FailedResponses == {Response(f, <<>>) : f \in Failures}

\* The answers of the three countries: the countries of `failing` fail with
\* `failure`, the others answer with `items` cut at i and j.
AdzunaAnswers(items, i, j, failing, failure) ==
    LET b == <<SubSeq(items, 1, i), SubSeq(items, i + 1, j),
               SubSeq(items, j + 1, Len(items))>>
    IN [k \in 1..Len(AdzunaCountries) |->
           IF k \in failing THEN Response(failure, <<>>) ELSE Response("ok", b[k])]

EnvValues == {Unset, "", "set"}
NoEnv == [ADZUNA_APP_ID |-> Unset, ADZUNA_APP_KEY |-> Unset, TOP_COMPANIES |-> None]
AdzunaEnvs ==
    [ADZUNA_APP_ID : EnvValues, ADZUNA_APP_KEY : EnvValues, TOP_COMPANIES : {None}]

InitFetch ==
    /\ ft_pc = "ready"
    /\ ft_source = "none"
    /\ ft_args \in FetchArgs
    /\ ft_env = NoEnv
    /\ ft_resps = <<>>
    /\ ft_out = Returned(<<>>, <<>>)

CallRemoteOk ==
    /\ ft_pc = "ready"
    /\ \/ \E resp \in FailedResponses \cup {Response("ok", <<>>)} :
             /\ ft_resps' = <<resp>>
             /\ ft_out' = RemoteOkFetch(resp, ft_args)
       \/ \E n \in 0..MaxItems : \E items \in [1..n -> FetchItems] :
             LET resp == Response("ok", <<LegalNotice>> \o items)
             IN /\ ft_resps' = <<resp>>
                /\ ft_out' = RemoteOkFetch(resp, ft_args)
    /\ ft_source' = "Remote OK"
    /\ ft_pc' = "done"
    /\ UNCHANGED <<ft_args, ft_env>>

CallRemotive ==
    /\ ft_pc = "ready"
    /\ \/ \E resp \in FailedResponses :
             /\ ft_resps' = <<resp>>
             /\ ft_out' = RemotiveFetch(resp, ft_args)
       \/ \E n \in 0..MaxItems : \E items \in [1..n -> FetchItems] :
             LET resp == Response("ok", items)
             IN /\ ft_resps' = <<resp>>
                /\ ft_out' = RemotiveFetch(resp, ft_args)
    /\ ft_source' = "Remotive"
    /\ ft_pc' = "done"
    /\ UNCHANGED <<ft_args, ft_env>>

\* Without credentials no request is issued, and no answer is consumed.
CallAdzuna ==
    /\ ft_pc = "ready"
    /\ \E env \in AdzunaEnvs :
          /\ ft_env' = env
          /\ IF CredentialsMissing(env)
             THEN /\ ft_resps' = <<>>
                  /\ ft_out' = AdzunaFetch(env, <<>>, ft_args)
             ELSE \E n \in 0..MaxItems : \E items \in [1..n -> AdzunaItems] :
                  \E i \in 0..n : \E j \in i..n :
                  \E failing \in SUBSET (1..Len(AdzunaCountries)) :
                  \E failure \in Failures :
                     LET resps == AdzunaAnswers(items, i, j, failing, failure)
                     IN /\ Len(resps[1].body) + Len(resps[2].body)
                           + Len(resps[3].body) = n
                        /\ ft_resps' = resps
                        /\ ft_out' = AdzunaFetch(env, resps, ft_args)
    /\ ft_source' = "Adzuna"
    /\ ft_pc' = "done"
    /\ UNCHANGED ft_args

----------------------------------------------------------------------------
(* SpecScrape: one scrape_jobs call on every combination of answers the    *)
(* bounds allow                                                            *)

\* The largest number of postings in the answers to one scrape_jobs call.
MaxPostings == 3

\* A posting every adapter reads the same salary from: the upper bound is in
\* the salary_max field and, with a $, in the salary text.
Posting(url, salary, t) ==
    Item(DateStr("aware", t), None, salary,
         IF salary = None THEN <<>> ELSE <<Token(TRUE, Val(salary), FALSE)>>,
         <<<<"A", "b", "c">>>>, url)

U1 == <<"u", "1">>
U2 == <<"u", "2">>
U3 == <<"u", "3">>

\* Postings that share a url, tie on salary, tie on salary and date, lack a
\* salary, have a salary of 0, or lack a url.
ScrapeItems ==
    {Posting(U1, Num(4), 0), Posting(U1, Num(2), 0),
     Posting(U2, Num(4), 0), Posting(U2, Num(4), 0 - 1), Posting(U2, None, 0),
     Posting(U3, Num(0), 0 - 1), Posting(U3, Num(4), 0),
     Posting(<<>>, Num(4), 0)}

AllScrapeArgs ==
    {ScrapeArgs(1, m, l, Some(<<>>), None) : m \in {0, 4}, l \in Limits}

CredentialsSet ==
    [ADZUNA_APP_ID |-> "set", ADZUNA_APP_KEY |-> "set", TOP_COMPANIES |-> None]

\* The answers of the three feeds to `items` cut at i and j: a feed of `down`
\* fails (Remote OK by the network, Remotive by a timeout, Adzuna by an HTTP
\* status in every country); the postings of Adzuna come from its first
\* country.
ScrapeAnswers(items, i, j, down) ==
    [remoteok |-> IF 1 \in down THEN Response("network", <<>>)
                  ELSE Response("ok", <<LegalNotice>> \o SubSeq(items, 1, i)),
     remotive |-> IF 2 \in down THEN Response("timeout", <<>>)
                  ELSE Response("ok", SubSeq(items, i + 1, j)),
     adzuna |-> IF 3 \in down THEN [k \in 1..3 |-> Response("http", <<>>)]
                ELSE [k \in 1..3 |->
                         Response("ok", IF k = 1 THEN SubSeq(items, j + 1, Len(items))
                                        ELSE <<>>)]]

NoAnswers == ScrapeAnswers(<<>>, 0, 0, {})

InitScrape ==
    /\ sc_pc = "ready"
    /\ sc_args \in AllScrapeArgs
    /\ sc_env = CredentialsSet
    /\ sc_resps = NoAnswers
    /\ sc_out = ScrapeReturned(<<>>, <<>>)

CallScrapeJobs ==
    /\ sc_pc = "ready"
    /\ \E n \in 0..MaxPostings : \E items \in [1..n -> ScrapeItems] :
       \E i \in 0..n : \E j \in i..n : \E down \in SUBSET (1..3) :
          LET resps == ScrapeAnswers(items, i, j, down)
          IN /\ (1 \in down => i = 0) /\ (2 \in down => j = i) /\ (3 \in down => j = n)
             /\ sc_resps' = resps
             /\ sc_out' = scrape_jobs(sc_args, sc_env, resps)
    /\ sc_pc' = "done"
    /\ UNCHANGED <<sc_args, sc_env>>

----------------------------------------------------------------------------
(* firebase.py: init_firebase *)

\* The files a credential path can name.
CredentialFiles == {"missing.json", "malformed.json", "key.json"}

\* credentials.Certificate(path): "" when the certificate is built, else the
\* exception: open() fails on a missing file, json.load or the key check on a
\* file that is not a service account key.
Certificate(path) ==
    CASE path = "missing.json" -> "FileNotFoundError"
      [] path = "malformed.json" -> "ValueError"
      [] OTHER -> ""

\* firestore.client() for the registered app.  An app of a certificate has
\* its credential; an app of firebase_admin.initialize_app() without
\* argument looks the application default credentials up on first use, and
\* keeps them once found ("adc_found").
firestore_client(app, adc) ==
    IF app = "cert" \/ app = "adc_found" \/ adc
    THEN [raised |-> "", apps |-> IF app = "adc" THEN "adc_found" ELSE app]
    ELSE [raised |-> "DefaultCredentialsError", apps |-> app]

\* What an init_firebase call did: whether it returned a client, the
\* exception that left it ("" for none), and firebase_admin._apps after it.
InitResult(client, raised, apps) == [client |-> client, raised |-> raised, apps |-> apps]

\* if firebase_admin._apps
AppRegistered(apps) == apps # "none"

\* init_firebase(credential_path): Unset stands for a None credential_path,
\* apps = "no module" for a firebase_admin that could not be imported.
init_firebase(credential_path, env, adc, apps) ==
    IF apps = "no module" THEN InitResult(FALSE, "", apps)
    ELSE IF AppRegistered(apps)
    THEN LET c == firestore_client(apps, adc)
         IN InitResult(c.raised = "", c.raised, c.apps)
    ELSE LET path == IF EnvFalsy(credential_path) THEN env.FIREBASE_CREDENTIALS
                     ELSE credential_path
         IN IF ~EnvFalsy(path)
            THEN IF Certificate(path) # "" THEN InitResult(FALSE, "", apps)
                 ELSE InitResult(TRUE, "", "cert")
            ELSE LET c == firestore_client("adc", adc)
                 IN InitResult(c.raised = "", "", c.apps)

----------------------------------------------------------------------------
(* main.py: save_jobs_to_csv, run_pipeline, schedule_pipeline *)

\* to_local_date_str: the text has the minute of the local time and no
\* offset.
to_local_date_str(dt_obj) == [format |-> "%Y-%m-%d %H:%M", t |-> dt_obj.t]

CsvHeader ==
    <<"title", "company", "location", "publication_date", "salary_min",
      "salary_max", "currency", "average_salary", "url", "source">>

CsvRow(job) ==
    <<job.title, job.company, job.location,
      to_local_date_str(job.publication_date), job.salary_min, job.salary_max,
      job.currency, average_salary(job), job.url, job.source>>

\* A mutant of OpenForWriting: the file is opened for appending.
OpenForWriting_append(file) == IF file = None THEN <<>> ELSE Val(file)

\* open(path, "w"): the rows of the file once opened; a file that exists is
\* truncated.
OpenForWriting(file) == <<>>

\* save_jobs_to_csv: the rows the writer writes, the header first.
CsvFile(jobs) == <<CsvHeader>> \o [k \in 1..Len(jobs) |-> CsvRow(jobs[k])]

\* The keyword arguments of schedule_pipeline.
Kwargs(interval_hours, output_path, push_firebase, scrape) ==
    [interval_hours |-> interval_hours, output_path |-> output_path,
     push_firebase |-> push_firebase, scrape |-> scrape]

\* run_pending is called once a minute: the checks of one hour.
ChecksPerHour == 1

\* The default batch_size of upsert_jobs_batch.
DefaultBatchSize == 2

\* The last init_firebase call: whether one was made, whether the
\* credentials were unset or invalid when it was made, whether the call
\* before it had failed, whether a call before it had returned a client, and
\* what it did.
NoInitCall == [called |-> FALSE, unusable |-> FALSE, after_failed |-> FALSE,
               after_client |-> FALSE, client |-> FALSE, raised |-> ""]

\* The credentials are unset (no path and no application default
\* credentials) or invalid (the path names no service account key).
CredentialsUnusable(env, adc) ==
    IF EnvFalsy(env.FIREBASE_CREDENTIALS) THEN ~adc
    ELSE Certificate(env.FIREBASE_CREDENTIALS) # ""

\* A mutant of Caught: job_wrapper catches nothing.
Caught_nothing(exc) == FALSE

\* except Exception: SystemExit is not an Exception.
Caught(exc) == exc # "SystemExit"

\* run_pipeline ends, by returning (exc = "") or by the exception exc, inside
\* job_wrapper: a caught exception is logged, the job is scheduled again
\* and the loop goes on to sleep; any other exception ends the process.
RunEnds(exc) ==
    /\ sd_last' = IF exc = "" THEN "returned" ELSE exc
    /\ IF exc = "" \/ Caught(exc)
       THEN /\ sd_pc' = "sleep"
            /\ sd_wait' = sd_kwargs.interval_hours * ChecksPerHour
       ELSE /\ sd_pc' = "exited"
            /\ UNCHANGED sd_wait

\* time.sleep(60)
SchedSleep ==
    /\ sd_pc = "sleep"
    /\ sd_pc' = "pending"
    /\ sd_wait' = IF sd_wait > 0 THEN sd_wait - 1 ELSE 0
    /\ UNCHANGED <<sd_kwargs, sd_env, sd_adc, sd_apps, sd_jobs, sd_csv, sd_fb,
                   sd_last, sd_signal>>

\* schedule.run_pending(): the job is not due.
SchedNotDue ==
    /\ sd_pc = "pending"
    /\ sd_wait > 0
    /\ sd_pc' = "sleep"
    /\ UNCHANGED <<sd_kwargs, sd_wait, sd_env, sd_adc, sd_apps, sd_jobs, sd_csv,
                   sd_fb, sd_last, sd_signal>>

\* schedule.run_pending(): the job is due, job_wrapper calls run_pipeline.
SchedRunJob ==
    /\ sd_pc = "pending"
    /\ sd_wait = 0
    /\ sd_pc' = "scrape"
    /\ sd_jobs' = <<>>
    /\ UNCHANGED <<sd_kwargs, sd_wait, sd_env, sd_adc, sd_apps, sd_csv, sd_fb,
                   sd_last, sd_signal>>

\* The answers of the feeds to one run: none has a posting; Remotive has
\* two; Remotive has two, one of them another job of the same url; Remote OK
\* has a posting whose date has no offset.
SchedAnswers ==
    {ScrapeAnswers(<<>>, 0, 0, {1}),
     ScrapeAnswers(<<Posting(U1, Num(4), 0), Posting(U2, Num(4), 0)>>, 0, 2, {}),
     ScrapeAnswers(<<Posting(U1, Num(2), 0), Posting(U1, Num(4), 0)>>, 0, 2, {3}),
     ScrapeAnswers(<<[Posting(U3, Num(4), 0) EXCEPT !.date = DateStr("naive", 0)]>>,
                   1, 1, {})}

\* run_pipeline: jobs = scrape_jobs(...)
RunScrape ==
    /\ sd_pc = "scrape"
    /\ \E resps \in SchedAnswers :
       \E out \in {scrape_jobs(sd_kwargs.scrape, sd_env, resps)} :
          IF out.raised
          THEN RunEnds("TypeError") /\ UNCHANGED sd_jobs
          ELSE /\ sd_jobs' = out.jobs
               /\ sd_pc' = "csv"
               /\ UNCHANGED <<sd_wait, sd_last>>
    /\ UNCHANGED <<sd_kwargs, sd_env, sd_adc, sd_apps, sd_csv, sd_fb, sd_signal>>

\* A mutant of AfterCsv: the client is initialised whatever push_firebase is.
AfterCsv_always_init == sd_pc' = "init" /\ UNCHANGED <<sd_wait, sd_last>>

\* What follows the CSV step of run_pipeline.
AfterCsv ==
    IF sd_kwargs.push_firebase
    THEN sd_pc' = "init" /\ UNCHANGED <<sd_wait, sd_last>>
    ELSE RunEnds("")

\* run_pipeline: if output_path: save_jobs_to_csv(jobs, output_path)
RunSaveCsv ==
    /\ sd_pc = "csv"
    /\ IF sd_kwargs.output_path # ""
       THEN sd_csv' = Some(OpenForWriting(sd_csv) \o CsvFile(sd_jobs))
       ELSE UNCHANGED sd_csv
    /\ AfterCsv
    /\ UNCHANGED <<sd_kwargs, sd_env, sd_adc, sd_apps, sd_jobs, sd_fb, sd_signal>>

\* save_jobs_to_csv: open(path, "w") fails (the directory is missing or not
\* writable); the OSError leaves run_pipeline.
RunSaveCsvRaises ==
    /\ sd_pc = "csv"
    /\ sd_kwargs.output_path # ""
    /\ RunEnds("OSError")
    /\ UNCHANGED <<sd_kwargs, sd_env, sd_adc, sd_apps, sd_jobs, sd_csv, sd_fb,
                   sd_signal>>

\* run_pipeline: client = init_firebase(); if client: upsert_jobs(jobs, ...)
\* is entered.
RunInitFirebase ==
    /\ sd_pc = "init"
    /\ \E r \in {init_firebase(Unset, sd_env, sd_adc, sd_apps)} :
          /\ sd_apps' = r.apps
          /\ sd_fb' = [called |-> TRUE,
                       unusable |-> CredentialsUnusable(sd_env, sd_adc),
                       after_failed |-> sd_fb.called /\ ~sd_fb.client,
                       after_client |-> sd_fb.after_client \/ sd_fb.client,
                       client |-> r.client, raised |-> r.raised]
          /\ IF r.raised # "" THEN RunEnds(r.raised) /\ UNCHANGED upsertVars
             ELSE IF ~r.client THEN RunEnds("") /\ UNCHANGED upsertVars
             ELSE /\ sd_pc' = "upsert"
                  /\ UNCHANGED <<sd_wait, sd_last>>
                  /\ up_pc' = "loop"
                  /\ up_jobs' = sd_jobs
                  /\ up_size' = DefaultBatchSize
                  /\ up_i' = 0
                  /\ up_count' = 0
                  /\ up_total' = 0
                  /\ up_batch' = <<>>
                  /\ up_commits' = <<>>
                  /\ up_ret' = 0
                  /\ UNCHANGED up_store
    /\ UNCHANGED <<sd_kwargs, sd_env, sd_adc, sd_jobs, sd_csv, sd_signal>>

\* run_pipeline: upsert_jobs returned or raised, and so does run_pipeline.
RunUpsertEnds ==
    /\ sd_pc = "upsert"
    /\ \/ up_pc = "returned" /\ RunEnds("")
       \/ up_pc = "raised" /\ RunEnds("GoogleAPICallError")
    /\ up_pc' = "idle"
    /\ up_jobs' = <<>>
    /\ up_batch' = <<>>
    /\ UNCHANGED <<up_size, up_i, up_count, up_total, up_commits, up_store, up_ret>>
    /\ UNCHANGED <<sd_kwargs, sd_env, sd_adc, sd_apps, sd_jobs, sd_csv, sd_fb,
                   sd_signal>>

\* SIGINT or SIGTERM: handle_exit runs in the main thread, wherever it is,
\* and sys.exit(0) raises SystemExit there.
Signal ==
    /\ sd_pc # "exited" /\ sd_pc # "idle"
    /\ sd_signal' = TRUE
    /\ sd_pc' = "exited"
    /\ sd_last' = IF sd_pc \in {"sleep", "pending"} THEN sd_last ELSE "SystemExit"
    /\ UNCHANGED <<sd_kwargs, sd_wait, sd_env, sd_adc, sd_apps, sd_jobs, sd_csv, sd_fb>>

\* Between two checks the credentials change: FIREBASE_CREDENTIALS is set or
\* unset, application default credentials appear or disappear.
ChangeCredentials ==
    /\ sd_pc = "sleep"
    /\ \E fc \in CredentialFiles \cup {Unset}, adc \in BOOLEAN :
          /\ <<fc, adc>> # <<sd_env.FIREBASE_CREDENTIALS, sd_adc>>
          /\ sd_env' = [sd_env EXCEPT !.FIREBASE_CREDENTIALS = fc]
          /\ sd_adc' = adc
    /\ UNCHANGED <<sd_pc, sd_kwargs, sd_wait, sd_apps, sd_jobs, sd_csv, sd_fb,
                   sd_last, sd_signal>>

----------------------------------------------------------------------------
(* SpecSched: schedule_pipeline from its call to the exit of the process *)

\* The longest interval, in hours.
MaxInterval == 2

SchedEnv(fc) ==
    [ADZUNA_APP_ID |-> "set", ADZUNA_APP_KEY |-> "set", TOP_COMPANIES |-> None,
     FIREBASE_CREDENTIALS |-> fc]

AllKwargs ==
    {Kwargs(h, o, p, ScrapeArgs(1, 0, AdzunaPageCap, Some(<<>>), None)) :
        h \in 1..MaxInterval, o \in {"", "jobs.csv"}, p \in BOOLEAN}

InitSched ==
    /\ sd_pc = "sleep"
    /\ sd_kwargs \in AllKwargs
    /\ sd_wait = sd_kwargs.interval_hours * ChecksPerHour
    /\ sd_env \in {SchedEnv(fc) : fc \in CredentialFiles \cup {Unset}}
    /\ sd_adc \in BOOLEAN
    /\ sd_apps \in {"none", "no module"}
    /\ sd_jobs = <<>>
    /\ sd_csv = None
    /\ sd_fb = NoInitCall
    /\ sd_last = "none"
    /\ sd_signal = FALSE
    /\ up_pc = "idle"
    /\ up_jobs = <<>>
    /\ up_size = 0
    /\ up_i = 0
    /\ up_count = 0
    /\ up_total = 0
    /\ up_batch = <<>>
    /\ up_commits = <<>>
    /\ up_store = EmptyStore
    /\ up_ret = 0

----------------------------------------------------------------------------
(* The parts of the state a specification does not exercise stay idle *)

IdleSalary ==
    /\ probe = ProbeJob(None, None)
    /\ probe_pc = "idle"
    /\ probe_avg = None

IdleUpsert ==
    /\ up_pc = "idle"
    /\ up_jobs = <<>>
    /\ up_size = 0
    /\ up_i = 0
    /\ up_count = 0
    /\ up_total = 0
    /\ up_batch = <<>>
    /\ up_commits = <<>>
    /\ up_store = EmptyStore
    /\ up_ret = 0

IdleFetch ==
    /\ ft_pc = "idle"
    /\ ft_source = "none"
    /\ ft_args = Args(0, 0, <<>>, 0)
    /\ ft_env = NoEnv
    /\ ft_resps = <<>>
    /\ ft_out = Returned(<<>>, <<>>)

IdleScrape ==
    /\ sc_pc = "idle"
    /\ sc_args = ScrapeArgs(0, 0, 0, None, <<>>)
    /\ sc_env = NoEnv
    /\ sc_resps = NoAnswers
    /\ sc_out = ScrapeReturned(<<>>, <<>>)

IdleSched ==
    /\ sd_pc = "idle"
    /\ sd_kwargs = Kwargs(0, "", FALSE, ScrapeArgs(0, 0, 0, None, <<>>))
    /\ sd_wait = 0
    /\ sd_env = NoEnv
    /\ sd_adc = FALSE
    /\ sd_apps = "none"
    /\ sd_jobs = <<>>
    /\ sd_csv = None
    /\ sd_fb = NoInitCall
    /\ sd_last = "none"
    /\ sd_signal = FALSE

----------------------------------------------------------------------------
(* Specifications *)

SalaryInit == InitSalary /\ IdleUpsert /\ IdleFetch /\ IdleScrape /\ IdleSched
SalaryNext == ReadAverageSalary /\ UNCHANGED <<upsertVars, fetchVars, scrapeVars, schedVars>>
SpecSalary == SalaryInit /\ [][SalaryNext]_vars

UpsertInit == InitUpsert /\ IdleSalary /\ IdleFetch /\ IdleScrape /\ IdleSched
UpsertNext ==
    \/ UpsertSkipJob /\ UNCHANGED <<salaryVars, fetchVars, scrapeVars, schedVars>>
    \/ UpsertStageJob /\ UNCHANGED <<salaryVars, fetchVars, scrapeVars, schedVars>>
    \/ UpsertStageAndCommit /\ UNCHANGED <<salaryVars, fetchVars, scrapeVars, schedVars>>
    \/ UpsertCommitRaises /\ UNCHANGED <<salaryVars, fetchVars, scrapeVars, schedVars>>
    \/ UpsertReturn /\ UNCHANGED <<salaryVars, fetchVars, scrapeVars, schedVars>>
SpecUpsert == UpsertInit /\ [][UpsertNext]_vars

FetchInit == InitFetch /\ IdleSalary /\ IdleUpsert /\ IdleScrape /\ IdleSched
FetchNext ==
    \/ CallRemoteOk /\ UNCHANGED <<salaryVars, upsertVars, scrapeVars, schedVars>>
    \/ CallRemotive /\ UNCHANGED <<salaryVars, upsertVars, scrapeVars, schedVars>>
    \/ CallAdzuna /\ UNCHANGED <<salaryVars, upsertVars, scrapeVars, schedVars>>
SpecFetch == FetchInit /\ [][FetchNext]_vars

ScrapeInit == InitScrape /\ IdleSalary /\ IdleUpsert /\ IdleFetch /\ IdleSched
ScrapeNext == CallScrapeJobs /\ UNCHANGED <<salaryVars, upsertVars, fetchVars, schedVars>>
SpecScrape == ScrapeInit /\ [][ScrapeNext]_vars

SchedInit == InitSched /\ IdleSalary /\ IdleFetch /\ IdleScrape
SchedNext ==
    \/ SchedSleep /\ UNCHANGED <<salaryVars, upsertVars, fetchVars, scrapeVars>>
    \/ SchedNotDue /\ UNCHANGED <<salaryVars, upsertVars, fetchVars, scrapeVars>>
    \/ SchedRunJob /\ UNCHANGED <<salaryVars, upsertVars, fetchVars, scrapeVars>>
    \/ RunScrape /\ UNCHANGED <<salaryVars, upsertVars, fetchVars, scrapeVars>>
    \/ RunSaveCsv /\ UNCHANGED <<salaryVars, upsertVars, fetchVars, scrapeVars>>
    \/ RunSaveCsvRaises /\ UNCHANGED <<salaryVars, upsertVars, fetchVars, scrapeVars>>
    \/ RunInitFirebase /\ UNCHANGED <<salaryVars, fetchVars, scrapeVars>>
    \/ sd_pc = "upsert" /\ UpsertStageJob
          /\ UNCHANGED <<salaryVars, fetchVars, scrapeVars, schedVars>>
    \/ sd_pc = "upsert" /\ UpsertStageAndCommit
          /\ UNCHANGED <<salaryVars, fetchVars, scrapeVars, schedVars>>
    \/ sd_pc = "upsert" /\ UpsertCommitRaises
          /\ UNCHANGED <<salaryVars, fetchVars, scrapeVars, schedVars>>
    \/ sd_pc = "upsert" /\ UpsertReturn
          /\ UNCHANGED <<salaryVars, fetchVars, scrapeVars, schedVars>>
    \/ RunUpsertEnds /\ UNCHANGED <<salaryVars, fetchVars, scrapeVars>>
    \/ Signal /\ UNCHANGED <<salaryVars, upsertVars, fetchVars, scrapeVars>>
    \/ ChangeCredentials /\ UNCHANGED <<salaryVars, upsertVars, fetchVars, scrapeVars>>
SpecSched == SchedInit /\ [][SchedNext]_vars

\* The main thread keeps running its loop: a sleep ends, and run_pending
\* is called after it.
SchedLoop ==
    /\ SchedSleep \/ SchedNotDue \/ SchedRunJob
    /\ UNCHANGED <<salaryVars, upsertVars, fetchVars, scrapeVars>>
SpecSchedLive == SpecSched /\ WF_vars(SchedLoop)

----------------------------------------------------------------------------
(* Claims *)

RECURSIVE Flatten(_)
Flatten(seqs) == IF seqs = <<>> THEN <<>> ELSE Head(seqs) \o Flatten(Tail(seqs))

\* The jobs of a list that have a non-empty url, in order.
WithUrl(jobs) == SelectSeq(jobs, LAMBDA j : j.url # <<>>)

\* ceil(n / b) for b >= 1
CeilDiv(n, b) == (n + b - 1) \div b

\* C3: when upsert_jobs_batch returns on a list with N jobs of non-empty url
\* and batch_size B >= 1, it has made ceil(N/B) commits, each of B writes
\* except a last one of 1..B writes, the commits hold exactly the writes of
\* the N jobs in order (an empty-url job is written nowhere), nothing is left
\* staged, and N is returned; N = 0 gives no commit and 0.
C3_UpsertBatching ==
    up_pc = "returned" =>
        LET N == Len(WithUrl(up_jobs))
            B == up_size
            C == Len(up_commits)
        IN /\ C = CeilDiv(N, B)
           /\ \A k \in 1..C : IF k < C THEN Len(up_commits[k]) = B
                              ELSE Len(up_commits[k]) \in 1..B
           /\ Flatten(up_commits) = [k \in 1..N |-> DocWrite(WithUrl(up_jobs)[k])]
           /\ up_batch = <<>>
           /\ up_ret = N
           /\ (N = 0 => up_commits = <<>> /\ up_ret = 0)

\* C3 witness: a return after two full commits and a partial one, with an
\* empty-url job passed over.
C3_Witness ==
    /\ up_pc = "returned"
    /\ up_size = 1 + 1
    /\ Len(up_commits) = 1 + 1
    /\ Len(up_commits[1 + 1]) = 1
    /\ Len(WithUrl(up_jobs)) < Len(up_jobs)

\* The rule the documentation states for average_salary: the mean of both
\* bounds, else the one bound present, else absent.
DocumentedAverage(job) ==
    IF job.salary_min # None /\ job.salary_max # None
    THEN Num(Mean(Val(job.salary_min), Val(job.salary_max)))
    ELSE IF job.salary_max # None THEN job.salary_max
    ELSE job.salary_min

\* C9: average_salary is the mean of salary_min and salary_max when both are
\* present, the one bound that is present when exactly one is (0 included),
\* and absent only when both are absent.
C9_AverageSalary ==
    probe_pc = "read" =>
        /\ probe_avg = DocumentedAverage(probe)
        /\ (probe_avg = None <=> probe.salary_min = None /\ probe.salary_max = None)

----------------------------------------------------------------------------
(* Claims about one fetch_jobs call (SpecFetch) *)

\* The postings of an answer that the adapter's loop visits.
Visited(source, resp) ==
    IF resp.status # "ok" THEN <<>>
    ELSE IF source = "Remote OK"
    THEN (IF resp.body = <<>> THEN <<>> ELSE Tail(resp.body))
    ELSE resp.body

\* The same fetch_jobs call on other answers.
Refetch(source, env, resps, args) ==
    CASE source = "Remote OK" -> RemoteOkFetch(resps[1], args)
      [] source = "Remotive" -> RemotiveFetch(resps[1], args)
      [] source = "Adzuna" -> AdzunaFetch(env, resps, args)

\* C6: a network, timeout, HTTP-status or decoding failure makes fetch_jobs
\* return an empty list (Adzuna: the kept postings of the countries that
\* answered, sorted and cut to limit) and never raises.
C6_FailureContained ==
    (ft_pc = "done" /\ \E k \in 1..Len(ft_resps) : ft_resps[k].status \in Failures)
    => /\ ~ft_out.raised
       /\ ft_source # "Adzuna" => ft_out.jobs = <<>>
       /\ ft_source = "Adzuna" =>
             ft_out.jobs =
                Refetch("Adzuna", ft_env,
                        [k \in 1..Len(ft_resps) |->
                            IF ft_resps[k].status \in Failures
                            THEN Response("ok", <<>>) ELSE ft_resps[k]],
                        ft_args).jobs

\* The part of C6 that holds: a failed request alone raises nothing.  A failed
\* answer is handled as an answer without postings, and a call whose every
\* request fails returns the empty list.
C6_FailureAlone ==
    (ft_pc = "done" /\ \E k \in 1..Len(ft_resps) : ft_resps[k].status \in Failures)
    => /\ ft_out.raised = Refetch(ft_source, ft_env,
                                  [k \in 1..Len(ft_resps) |->
                                      IF ft_resps[k].status \in Failures
                                      THEN Response("ok", <<>>) ELSE ft_resps[k]],
                                  ft_args).raised
       /\ ft_out.jobs = Refetch(ft_source, ft_env,
                                [k \in 1..Len(ft_resps) |->
                                    IF ft_resps[k].status \in Failures
                                    THEN Response("ok", <<>>) ELSE ft_resps[k]],
                                ft_args).jobs
       /\ (\A k \in 1..Len(ft_resps) : ft_resps[k].status \in Failures)
             => ft_out = Returned(<<>>, ft_out.requests)

\* A date that is missing, malformed, or parses without an offset.
BadDate(d) == d.kind \in {"missing", "malformed", "naive"}

\* An answer without its postings of bad date.
WithoutBadDates(source, resp) ==
    IF resp.status # "ok" \/ resp.body = <<>> THEN resp
    ELSE IF source = "Remote OK"
    THEN Response("ok", <<Head(resp.body)>>
                        \o SelectSeq(Tail(resp.body), LAMBDA it : ~BadDate(it.date)))
    ELSE Response("ok", SelectSeq(resp.body, LAMBDA it : ~BadDate(it.date)))

\* C7: a posting whose date is missing, malformed or without an offset is
\* skipped on its own: fetch_jobs does not raise, returns what it returns for
\* the answers without that posting, and every Job returned has an aware
\* publication_date.
C7_BadDateSkipped ==
    ft_pc = "done" =>
        /\ ~ft_out.raised
        /\ ft_out.jobs =
              Refetch(ft_source, ft_env,
                      [k \in 1..Len(ft_resps) |-> WithoutBadDates(ft_source, ft_resps[k])],
                      ft_args).jobs
        /\ \A k \in 1..Len(ft_out.jobs) : ft_out.jobs[k].publication_date.aware

\* C8: with ADZUNA_APP_ID or ADZUNA_APP_KEY unset or empty, the Adzuna
\* fetch_jobs returns an empty list and issues no request, whatever its
\* arguments.
C8_NoCredentialsNoRequest ==
    (/\ ft_pc = "done"
     /\ ft_source = "Adzuna"
     /\ \/ ft_env.ADZUNA_APP_ID \in {Unset, ""}
        \/ ft_env.ADZUNA_APP_KEY \in {Unset, ""})
    => /\ ~ft_out.raised
       /\ ft_out.jobs = <<>>
       /\ ft_out.requests = <<>>

\* C8 witness: an Adzuna call with the id set and the key empty, asked for a
\* positive number of jobs.
C8_Witness ==
    /\ ft_pc = "done"
    /\ ft_source = "Adzuna"
    /\ ft_env.ADZUNA_APP_ID = "set"
    /\ ft_env.ADZUNA_APP_KEY = ""
    /\ ft_args.limit > 0
    /\ ft_out.requests = <<>>

\* The salary bounds an adapter reads from a posting.
BoundsRead(source, item) ==
    CASE source = "Remote OK" ->
            (IF item.salary_min = None /\ item.salary_max = None
             THEN RemoteOkParseSalary(item.salary)
             ELSE <<item.salary_min, item.salary_max>>)
      [] source = "Remotive" -> RemotiveParseSalary(item.salary)
      [] source = "Adzuna" -> <<item.salary_min, item.salary_max>>

\* A posting without salary bounds that is recent and passes the company
\* filter.
UnpaidCandidate(source, item, args) ==
    /\ BoundsRead(source, item) = <<None, None>>
    /\ item.date.kind \in {"aware"} \cup (IF source = "Remote OK" THEN {"zulu"} ELSE {})
    /\ item.date.t >= UtcNow - args.days
    /\ args.top_companies # <<>> =>
          is_top_company([company |-> Get(item.company, NA)], args.top_companies)

\* C10: with min_salary = 0, a recent posting that passes the company filter
\* and has neither salary bound is returned by each of the three adapters
\* (when limit does not cut the list).
C10_UnpaidKept ==
    (/\ ft_pc = "done"
     /\ ~ft_out.raised
     /\ ft_args.min_salary = 0
     /\ ft_args.limit >= MaxItems)
    => \A k \in 1..Len(ft_resps) :
          \A n \in 1..Len(Visited(ft_source, ft_resps[k])) :
             LET item == Visited(ft_source, ft_resps[k])[n]
             IN UnpaidCandidate(ft_source, item, ft_args)
                => \E m \in 1..Len(ft_out.jobs) :
                      /\ ft_out.jobs[m].url = item.url
                      /\ average_salary(ft_out.jobs[m]) = None

\* The part of C10 that holds: Remotive and Adzuna keep such a posting.
C10_UnpaidKeptByTwo ==
    ft_source # "Remote OK" => C10_UnpaidKept

----------------------------------------------------------------------------
(* Claims about one scrape_jobs call (SpecScrape) *)

ScrapeDone == sc_pc = "done" /\ ~sc_out.raised

\* The place of the first job of a url in a list.
FirstIndex(jobs, url) ==
    CHOOSE k \in 1..Len(jobs) :
        jobs[k].url = url /\ \A m \in 1..(k - 1) : jobs[m].url # url

SourceOrder(source) ==
    CASE source = "Remote OK" -> 1 [] source = "Remotive" -> 2 [] source = "Adzuna" -> 3

NonEmptyUrls(jobs) == {jobs[k].url : k \in 1..Len(jobs)} \ {<<>>}

\* C1: after de-duplication no two returned jobs share a url, no returned
\* job has an empty url, and the job kept for a url is the first one of that
\* url in the concatenation Remote OK, Remotive, Adzuna; every url of the
\* concatenation is returned when the limit does not cut the list.
C1_DedupeFirstSeen ==
    ScrapeDone =>
        LET jobs == sc_out.jobs
            fetched == sc_out.fetched
        IN /\ \A k, l \in 1..Len(jobs) : k # l => jobs[k].url # jobs[l].url
           /\ \A k \in 1..Len(jobs) : jobs[k].url # <<>>
           /\ \A k, l \in 1..Len(fetched) :
                 k < l => SourceOrder(fetched[k].source) <= SourceOrder(fetched[l].source)
           /\ \A k \in 1..Len(jobs) :
                 /\ \E m \in 1..Len(fetched) : fetched[m].url = jobs[k].url
                 /\ jobs[k] = fetched[FirstIndex(fetched, jobs[k].url)]
           /\ Len(jobs) = Min(sc_args.limit, Cardinality(NonEmptyUrls(fetched)))

\* Two sources answered with different jobs of one url, a job without url
\* was fetched, and the job of the earlier source was returned.
C1_Witness ==
    /\ ScrapeDone
    /\ \E k, l \in 1..Len(sc_out.fetched) :
          /\ k < l
          /\ sc_out.fetched[k].url = sc_out.fetched[l].url
          /\ sc_out.fetched[k].source # sc_out.fetched[l].source
          /\ sc_out.fetched[k].salary_max # sc_out.fetched[l].salary_max
          /\ \E m \in 1..Len(sc_out.jobs) : sc_out.jobs[m] = sc_out.fetched[k]
    /\ \E k \in 1..Len(sc_out.fetched) : sc_out.fetched[k].url = <<>>

\* The salary a job is ranked by: its documented average, 0 when absent.
RankSalary(job) ==
    IF DocumentedAverage(job) = None THEN 0 ELSE Val(DocumentedAverage(job))

\* C2: the returned list is in descending order of average salary, an absent
\* salary counting as 0; jobs of one salary are in descending order of
\* publication date; jobs equal on both are in the order of their first
\* appearance in the concatenation, the order they had after de-duplication.
C2_Ranking ==
    ScrapeDone =>
        LET jobs == sc_out.jobs
            fetched == sc_out.fetched
        IN \A k, l \in 1..Len(jobs) :
              k < l =>
                 /\ RankSalary(jobs[k]) >= RankSalary(jobs[l])
                 /\ RankSalary(jobs[k]) = RankSalary(jobs[l]) =>
                       jobs[k].publication_date.t >= jobs[l].publication_date.t
                 /\ ( /\ RankSalary(jobs[k]) = RankSalary(jobs[l])
                      /\ jobs[k].publication_date.t = jobs[l].publication_date.t )
                    => FirstIndex(fetched, jobs[k].url) < FirstIndex(fetched, jobs[l].url)

\* Three jobs of one salary were returned: the oldest was fetched first and
\* is returned last, the other two are of one date and in their fetched
\* order; and a job without salary is ranked with a job of salary 0.
C2_Witness ==
    /\ ScrapeDone
    /\ Len(sc_out.jobs) = 3
    /\ RankSalary(sc_out.jobs[1]) = RankSalary(sc_out.jobs[3])
    /\ sc_out.jobs[1].publication_date.t = sc_out.jobs[2].publication_date.t
    /\ sc_out.jobs[2].publication_date.t > sc_out.jobs[3].publication_date.t
    /\ FirstIndex(sc_out.fetched, sc_out.jobs[3].url)
          < FirstIndex(sc_out.fetched, sc_out.jobs[1].url)
    /\ FirstIndex(sc_out.fetched, sc_out.jobs[1].url)
          < FirstIndex(sc_out.fetched, sc_out.jobs[2].url)

\* A job without salary was returned before an older job of salary 0, and
\* after a job with a salary.
C2_AbsentAsZero ==
    /\ ScrapeDone
    /\ Len(sc_out.jobs) = 3
    /\ sc_out.jobs[1].salary_max # None /\ Val(sc_out.jobs[1].salary_max) > 0
    /\ sc_out.jobs[2].salary_max = None /\ sc_out.jobs[2].salary_min = None
    /\ sc_out.jobs[3].salary_max = Num(0)

----------------------------------------------------------------------------
(* Claims about schedule_pipeline (SpecSched, SpecSchedLive) *)

\* C4: an init_firebase call made while the credentials are unset or invalid
\* returns no client and does not raise, also when it follows a failed call,
\* and run_pipeline does not enter the upsert; stated for the processes in
\* which no earlier call returned a client.
C4_InitNeverRaises ==
    (sd_fb.called /\ sd_fb.unusable /\ ~sd_fb.after_client) =>
        /\ ~sd_fb.client
        /\ sd_fb.raised = ""
        /\ sd_pc # "upsert"

\* The same for the first call of a process and the calls that follow calls
\* with an invalid path only: no app was registered.
C4_InitFirstCall ==
    (sd_fb.called /\ sd_fb.unusable /\ ~sd_fb.after_client /\ sd_apps \in {"none", "no module"}) =>
        /\ ~sd_fb.client
        /\ sd_fb.raised = ""
        /\ sd_pc # "upsert"

\* The exceptions a run can end with that job_wrapper catches.
RunErrors == {"TypeError", "OSError", "DefaultCredentialsError", "GoogleAPICallError"}

InRun(pc) == pc \in {"scrape", "csv", "init", "upsert"}

\* C5: the process exits only on a signal; a run that ends by an exception,
\* no signal delivered, leaves the loop running and the job scheduled one
\* interval later; and after such a run the pipeline is invoked again, unless
\* a signal comes first.
C5_SchedulerSurvives ==
    /\ [](sd_pc = "exited" => sd_signal)
    /\ [][(InRun(sd_pc) /\ ~InRun(sd_pc') /\ ~sd_signal') =>
             /\ sd_pc' = "sleep"
             /\ sd_wait' = sd_kwargs.interval_hours * ChecksPerHour
             /\ sd_kwargs' = sd_kwargs]_vars
    /\ (sd_pc = "sleep" /\ sd_last \in RunErrors) ~> (sd_pc = "scrape" \/ sd_signal)

\* A run is in progress and the run before it ended by an exception.
C5_Witness == sd_pc = "scrape" /\ sd_last \in RunErrors /\ ~sd_signal

\* The file save_jobs_to_csv is documented to leave for a job list: one
\* header row, then one row per job, in the order of the list.
IsCsvOf(file, jobs) ==
    /\ file # None
    /\ Len(Val(file)) = Len(jobs) + 1
    /\ Val(file)[1] = <<"title", "company", "location", "publication_date",
                        "salary_min", "salary_max", "currency", "average_salary",
                        "url", "source">>
    /\ \A k \in 1..Len(jobs) :
          LET row == Val(file)[k + 1]
          IN /\ row[1] = jobs[k].title /\ row[2] = jobs[k].company
             /\ row[4].t = jobs[k].publication_date.t
             /\ row[4].format = "%Y-%m-%d %H:%M"
             /\ row[5] = jobs[k].salary_min /\ row[6] = jobs[k].salary_max
             /\ row[9] = jobs[k].url /\ row[10] = jobs[k].source

----------------------------------------------------------------------------
(* More claims about one fetch_jobs call (SpecFetch) *)

AdzunaCalled ==
    /\ ft_pc = "done" /\ ft_source = "Adzuna"
    /\ ft_env.ADZUNA_APP_ID = "set" /\ ft_env.ADZUNA_APP_KEY = "set"

\* One request per country, in list order, each for page 1 and with
\* results_per_page = min(limit, 50).
OnePerCountry(requests, limit) ==
    /\ Len(requests) = 3
    /\ \A k \in 1..Len(requests) :
          /\ requests[k].country = <<"us", "gb", "in">>[k]
          /\ requests[k].page = 1
          /\ requests[k].results_per_page = (IF limit < 50 THEN limit ELSE 50)
          /\ requests[k].results_per_page <= 50

\* C12: every request of the Adzuna adapter carries results_per_page =
\* min(limit, 50), and exactly one request, for page 1, is issued per country
\* of the list, in list order.
C12_OneRequestPerCountry ==
    AdzunaCalled => OnePerCountry(ft_out.requests, ft_args.limit)

\* The same for the calls that return: no answer holds a date without offset.
C12_RequestsOfReturnedCalls ==
    (AdzunaCalled /\ ~ft_out.raised) => OnePerCountry(ft_out.requests, ft_args.limit)

\* The answers of a call with every answer but that of country k replaced by
\* an answer without postings.
OnlyCountry(resps, k) ==
    [c \in 1..Len(resps) |-> IF c = k THEN resps[c] ELSE Response("ok", <<>>)]

\* The qualifying postings of country k: what the adapter returns, uncut,
\* when only that country has postings.
QualifyingOf(k) ==
    Refetch("Adzuna", ft_env, OnlyCountry(ft_resps, k),
            [ft_args EXCEPT !.limit = MaxItems]).jobs

Answered == {k \in 1..Len(ft_resps) : ft_resps[k].status = "ok"}

RECURSIVE SumOver(_, _)
SumOver(set, f) ==
    IF set = {} THEN 0
    ELSE LET x == CHOOSE y \in set : TRUE IN f[x] + SumOver(set \ {x}, f)

\* Some request failed and some succeeded; the call did not raise, sent a
\* request to every country, and returned the qualifying postings of the
\* countries that answered, up to limit.
PartialResultsKept ==
    /\ ~ft_out.raised
    /\ Len(ft_out.requests) = Len(ft_resps)
    /\ LET total == SumOver(Answered, [k \in Answered |-> Len(QualifyingOf(k))])
       IN /\ Len(ft_out.jobs) = Min(ft_args.limit, total)
          /\ ft_args.limit >= total =>
                \A k \in Answered : \A i \in 1..Len(QualifyingOf(k)) :
                   \E p \in 1..Len(ft_out.jobs) : ft_out.jobs[p] = QualifyingOf(k)[i]

OneCountryFailed ==
    /\ AdzunaCalled
    /\ Answered # {}
    /\ Answered # 1..Len(ft_resps)

\* C15: when the Adzuna request of a country fails, whichever its position,
\* the adapter goes on to the other countries and returns the qualifying
\* postings of every country whose request succeeded, up to limit.
C15_PartialResults == OneCountryFailed => PartialResultsKept

\* The same for the calls whose answers hold no date without offset.
C15_PartialResultsOfAwareDates ==
    (/\ OneCountryFailed
     /\ \A k \in Answered : \A i \in 1..Len(ft_resps[k].body) :
           ft_resps[k].body[i].date.kind # "naive")
    => PartialResultsKept


\* The upsert of the run was entered and did not finish: jobs of the run are
\* left unstaged or staged without a commit.
UpsertCutShort == up_pc = "loop"

\* C13: in scheduled mode a signal makes the process exit between two runs
\* only: the process never exits with a run cut short by the signal, so no
\* run is left with its CSV written and its upsert not done, or with some
\* batches committed and the others not.
C13_ExitBetweenRuns ==
    sd_pc = "exited" => (sd_last # "SystemExit" /\ ~UpsertCutShort)

\* C14: a change of FIREBASE_CREDENTIALS between two runs takes effect in the
\* next run, the variable being read at the call and not cached (the clause
\* of the claim for this variable): the init_firebase call of a run returns a
\* client exactly when the credentials, as they are at that call, are usable.
C14_CredentialsOfTheRun ==
    (sd_fb.called /\ sd_apps # "no module") => (sd_fb.client <=> ~sd_fb.unusable)

\* The same for the calls made while no app is registered.
C14_CredentialsBeforeAnApp ==
    [][(sd_pc = "init" /\ sd_apps = "none" /\ sd_fb' # sd_fb) =>
          (sd_fb'.client <=> ~sd_fb'.unusable)]_vars

\* The order of the steps of run_pipeline: each step is entered from the one
\* before it.
StepOrder == {<<"scrape", "csv">>, <<"csv", "init">>, <<"init", "upsert">>}

\* C16: within one run_pipeline call the steps come in the order scrape, CSV
\* export, client initialisation, upsert: the file is written in the CSV
\* step only, init_firebase is called in the initialisation step only and
\* documents are written in the upsert step only.  With push_firebase false
\* init_firebase is never called and no document is written; when
\* init_firebase returns no client no document is written; in both cases the
\* CSV of the run is on disk when the run ends.
C16_StepOrder ==
    /\ [][(InRun(sd_pc) /\ InRun(sd_pc') /\ sd_pc' # sd_pc) =>
             <<sd_pc, sd_pc'>> \in StepOrder]_vars
    /\ [][sd_csv' # sd_csv => sd_pc = "csv"]_vars
    /\ [][sd_fb' # sd_fb => sd_pc = "init"]_vars
    /\ [][up_store' # up_store => sd_pc = "upsert"]_vars
    /\ [](~sd_kwargs.push_firebase => (sd_fb = NoInitCall /\ up_store = EmptyStore))
    /\ [][(sd_pc = "init" /\ sd_fb' # sd_fb /\ ~sd_fb'.client) =>
             (sd_pc' # "upsert" /\ up_store' = up_store)]_vars
    /\ [][(sd_kwargs.output_path # "" /\ sd_last' = "returned"
           /\ InRun(sd_pc) /\ ~InRun(sd_pc')
           /\ (~sd_kwargs.push_firebase \/ ~sd_fb'.client)) =>
             IsCsvOf(sd_csv', sd_jobs')]_vars

\* A run has ended in which init_firebase returned no client: its two jobs
\* are in the CSV and no document was written.
C16_Witness ==
    /\ sd_pc = "sleep" /\ sd_last = "returned"
    /\ sd_kwargs.push_firebase /\ sd_fb.called /\ ~sd_fb.client
    /\ Len(sd_jobs) = 2 /\ IsCsvOf(sd_csv, sd_jobs)
    /\ up_store = EmptyStore

----------------------------------------------------------------------------
(* Claims about the threshold and the limit of scrape_jobs (SpecScrape) *)

\* The postings of the three answers of a call, the legal notice that heads
\* the Remote OK answer left out.
AnsweredPostings ==
    LET elems(seq) == {seq[k] : k \in 1..Len(seq)}
    IN (elems(sc_resps.remoteok.body) \ {LegalNotice})
       \cup elems(sc_resps.remotive.body)
       \cup UNION {elems(sc_resps.adzuna[c].body) : c \in 1..Len(sc_resps.adzuna)}

\* C17: a scrape_jobs call with min_salary > 0 and limit >= 0 returns jobs
\* whose average_salary is present and at least min_salary, and at most
\* limit of them.
C17_ThresholdAndLimit ==
    (ScrapeDone /\ sc_args.min_salary > 0 /\ sc_args.limit >= 0) =>
        /\ \A k \in 1..Len(sc_out.jobs) :
              /\ average_salary(sc_out.jobs[k]) # None
              /\ Val(average_salary(sc_out.jobs[k])) >= sc_args.min_salary
        /\ Len(sc_out.jobs) <= sc_args.limit

\* A call with a threshold returned as many jobs as the limit allows, while
\* more postings of distinct urls were at the threshold, and one posting was
\* below it.
C17_Witness ==
    /\ ScrapeDone /\ sc_args.min_salary > 0
    /\ Len(sc_out.jobs) = sc_args.limit /\ sc_args.limit > 0
    /\ Cardinality({p.url : p \in {q \in AnsweredPostings :
                        q.salary_max # None /\ Val(q.salary_max) >= sc_args.min_salary}}
                   \ {<<>>}) > sc_args.limit
    /\ \E p \in AnsweredPostings :
          p.salary_max # None /\ Val(p.salary_max) < sc_args.min_salary

\* What deduplicating, sorting and truncating the whole filtered lists of the
\* three adapters gives: scrape_jobs with a limit no adapter reaches, cut to
\* the limit of the call afterwards.
MergeOfFullLists(args, env, resps) ==
    LET all == Len(resps.remoteok.body) + Len(resps.remotive.body)
               + Len(resps.adzuna[1].body) + Len(resps.adzuna[2].body)
               + Len(resps.adzuna[3].body)
        full == scrape_jobs([args EXCEPT !.limit = all], env, resps)
    IN Truncate(full.jobs, args.limit)

\* C18: cutting each adapter's list to limit before the merge does not change
\* the result: scrape_jobs returns the list that deduplicating, sorting and
\* truncating the whole filtered lists would give.
C18_TruncationBeforeMerge ==
    ScrapeDone => sc_out.jobs = MergeOfFullLists(sc_args, sc_env, sc_resps)

\* C18, its particular case: when at least limit postings of distinct
\* non-empty urls pass the filters, limit jobs are returned.
C18_LimitJobsReturned ==
    (ScrapeDone
     /\ Cardinality(NonEmptyUrls(
           scrape_jobs([sc_args EXCEPT !.limit = AdzunaPageCap], sc_env, sc_resps).jobs))
           >= sc_args.limit) =>
        Len(sc_out.jobs) = sc_args.limit

----------------------------------------------------------------------------
(* Claims about the documents of one upsert_jobs_batch call (SpecUpsert) *)

\* A list as the deduplication of scrape_jobs leaves it: every job has a
\* url and no two jobs have the same.
Deduplicated(jobs) ==
    /\ \A k \in 1..Len(jobs) : jobs[k].url # <<>>
    /\ \A k, m \in 1..Len(jobs) : jobs[k].url = jobs[m].url => k = m

\* C19: jobs of distinct non-empty urls are written to distinct documents:
\* when upsert_jobs_batch has returned for a deduplicated list, the store
\* holds as many documents as the count returned, and the document of every
\* job holds that job, none being overwritten by another job of the call.
C19_DistinctDocuments ==
    (up_pc = "returned" /\ Deduplicated(up_jobs)) =>
        /\ Cardinality(DOMAIN up_store) = up_ret
        /\ \A k \in 1..Len(up_jobs) :
              /\ doc_id(up_jobs[k].url) \in DOMAIN up_store
              /\ up_store[doc_id(up_jobs[k].url)].url = up_jobs[k].url

\* The same for the lists whose urls differ in more than "/" and ":".
C19_DistinctIds ==
    (up_pc = "returned" /\ Deduplicated(up_jobs)
     /\ \A k, m \in 1..Len(up_jobs) :
           doc_id(up_jobs[k].url) = doc_id(up_jobs[m].url) => k = m) =>
        /\ Cardinality(DOMAIN up_store) = up_ret
        /\ \A k \in 1..Len(up_jobs) :
              /\ doc_id(up_jobs[k].url) \in DOMAIN up_store
              /\ up_store[doc_id(up_jobs[k].url)].url = up_jobs[k].url

============================================================================
